---- MODULE Spec2Model ----
(***************************************************************************)
(* State-machine model of GASClient (src/python/colab_integration.py):     *)
(* post_data, the redirect-aware submission with bounded retries and       *)
(* exponential backoff, post_batch, which drives post_data over a list of  *)
(* payloads, and test_connection, the single-shot probe.                   *)
(* One call of post_data is followed from its                              *)
(* validation through every network call (POST, the GET that follows a     *)
(* 302) and every time.sleep to the value it returns or the exception it   *)
(* raises.  The server and the transport are the environment: every reply  *)
(* is chosen nondeterministically from the sets below.                     *)
(*                                                                         *)
(* Exception classes are those of requests >= 2.27, where                  *)
(* requests.exceptions.JSONDecodeError (raised by Response.json) is a      *)
(* RequestException; MissingSchema (raised by requests.get('') before      *)
(* anything is sent) is a RequestException as well.                        *)
(***************************************************************************)
EXTENDS Integers, Sequences, FiniteSets, TLC

VARIABLES
    webapp_url,    \* self.webapp_url
    max_retries,   \* self.max_retries
    timeout,       \* self.timeout
    auth_token,    \* self.auth_token
    data,          \* the payload handed to post_data
    pc,            \* position of the call inside post_data
    attempt,       \* the loop variable of `for attempt in range(max_retries)`
    response,      \* the local `response`
    redirect_url,  \* the local `redirect_url`
    outcome,       \* what post_data handed to its caller (return value or exception)
    log,           \* the I/O the call performed, in order: POST, GET, WAIT
    items,         \* post_batch: the list handed in
    taken,         \* post_batch: how many items the loop has taken
    results,       \* post_batch: the local `results`
    success_count, \* post_batch: the local `success_count`
    batch_pc,      \* position of the call inside post_batch
    batch_return,  \* what post_batch handed to its caller
    test_pc,       \* position of the call inside test_connection
    test_response, \* test_connection: the local `response`
    test_log,      \* the I/O test_connection performed
    test_return    \* what test_connection returned

config == <<webapp_url, max_retries, timeout, auth_token>>

batch_vars == <<items, taken, results, success_count, batch_pc, batch_return>>

test_vars == <<test_pc, test_response, test_log, test_return>>

vars == <<webapp_url, max_retries, timeout, auth_token, data, pc, attempt,
          response, redirect_url, outcome, log, batch_vars, test_vars>>

(***************************************************************************)
(* Bounds of the model.                                                    *)
(***************************************************************************)
MaxRetriesBound == 3

\* the client as a whole (post_data, post_batch, test_connection in any order)
\* is explored with shorter retry loops and batches of at most MaxBatch items
ClientRetriesBound == 2

MaxBatch == 2

None == "None"

(***************************************************************************)
(* Payloads: a dict over a subset of the three keys; a value is either     *)
(* null (None) or a proper value.                                          *)
(***************************************************************************)
required_fields == <<"id", "result", "score">>

FieldSet == {required_fields[i] : i \in 1..Len(required_fields)}

Payloads == UNION {[S -> {None, "value"}] : S \in SUBSET FieldSet}

NoData == [k \in {} |-> None]

(***************************************************************************)
(* URLs are sequences of segments, the first one the host; the empty       *)
(* sequence is the empty string that headers.get('Location', '') gives     *)
(* for a response without a Location header.                               *)
(***************************************************************************)
LoginHost == "accounts.google.com"

ContentHost == "script.googleusercontent.com"

DefaultWebappUrl == <<"script.google.com", "/macros/s/ID/exec">>

Locations ==
    { <<>>,
      <<LoginHost, "/ServiceLogin">>,
      <<ContentHost, "/macros/echo">>,
      <<ContentHost, "/macros/echo?continue=", LoginHost>> }

\* `needle in url` of Python, on segment granularity
Contains(url, needle) == \E i \in 1..Len(url) : url[i] = needle

Host(url) == IF Len(url) = 0 THEN "" ELSE url[1]

(***************************************************************************)
(* Responses.  A body is text that is not JSON, JSON that is not an        *)
(* object, or a JSON object; of an object only what dict.get reads is      *)
(* kept, None standing for an absent key (dict.get returns None for it),   *)
(* and row 0 for an absent row.                                            *)
(***************************************************************************)
Statuses == {101, 200, 204, 301, 302, 400, 500}

Codes == {None, "INVALID_JSON", "MISSING_FIELDS", "RATE_LIMIT"}

\* a success carries the row written and the execution time, a rejection does not
JsonObjects ==
    [kind : {"object"}, status : {"success"}, code : Codes,
     row : {7, 8}, executionTime : {"1.2"}]
    \cup [kind : {"object"}, status : {"error", None}, code : Codes,
          row : {0}, executionTime : {None}]

NoBody ==
    [kind |-> "none", status |-> None, code |-> None, row |-> 0,
     executionTime |-> None]

NotJson ==
    [kind |-> "notjson", status |-> None, code |-> None, row |-> 0,
     executionTime |-> None]

NonObject ==
    [kind |-> "nonobject", status |-> None, code |-> None, row |-> 0,
     executionTime |-> None]

Bodies == JsonObjects \cup {NotJson, NonObject}

\* `att` tags a response with the attempt that received it
NoResponse == [status_code |-> 0, Location |-> <<>>, body |-> NoBody, att |-> -1]

\* what the server may answer to the POST (allow_redirects=False): the body
\* of a 302 and the Location of any other status are never read
PostResponses(att) ==
    [status_code : Statuses \ {302}, Location : {<<>>}, body : Bodies, att : {att}]
    \cup [status_code : {302}, Location : Locations, body : {NotJson}, att : {att}]

\* what the content host may answer to the GET
GetResponses(att) ==
    [status_code : Statuses, Location : {<<>>}, body : Bodies, att : {att}]

\* exceptions requests.post / requests.get raise when the transport fails
TransportErrors == {"Timeout", "ConnectionError"}

(***************************************************************************)
(* What post_data hands to its caller.                                     *)
(***************************************************************************)
NoOutcome ==
    [kind |-> "none", exc |-> None, msg |-> None, value |-> NoBody,
     status_code |-> 0, att |-> -1]

\* `return result`
Return(body, att) ==
    [kind |-> "return", exc |-> None, msg |-> None, value |-> body,
     status_code |-> 0, att |-> att]

\* an exception leaving post_data
Raise(exc, msg, status, att) ==
    [kind |-> "raise", exc |-> exc, msg |-> msg, value |-> NoBody,
     status_code |-> status, att |-> att]

MissingFieldsMsg == "Missing required fields"

AccessDeniedMsg == "Access denied: Redirected to login page"

ValidationMsg == "Validation error"

AllFailedMsg == "All retry attempts failed"

(***************************************************************************)
(* The I/O log.                                                            *)
(***************************************************************************)
NoAuth == [scheme |-> None, token |-> None]

PostEvent(url, hdrs, d) ==
    [op |-> "POST", url |-> url, auth |-> hdrs.Authorization, sent |-> d, wait |-> 0]

GetEvent(url) ==
    [op |-> "GET", url |-> url, auth |-> NoAuth, sent |-> NoData, wait |-> 0]

WaitEvent(t) ==
    [op |-> "WAIT", url |-> <<>>, auth |-> NoAuth, sent |-> NoData, wait |-> t]

Count(op) == Cardinality({i \in 1..Len(log) : log[i].op = op})

Posts == Count("POST")

Gets == Count("GET")

Waits == Count("WAIT")

(***************************************************************************)
(* The pieces of post_data.                                                *)
(***************************************************************************)
\* mutant: the check forgets the last required field
missing_forgets_score(d) ==
    SelectSeq(required_fields, LAMBDA f : f \notin DOMAIN d /\ f # "score")

\* missing = [f for f in required_fields if f not in data]
missing(d) == SelectSeq(required_fields, LAMBDA f : f \notin DOMAIN d)

\* mutant: the Authorization header is added whether or not a token is set
headers_always_bearer(token) ==
    [ContentType |-> "application/json",
     Authorization |-> [scheme |-> "Bearer", token |-> token]]

\* headers = {'Content-Type': ...}; if self.auth_token: headers['Authorization'] = ...
headers(token) ==
    [ContentType |-> "application/json",
     Authorization |-> IF token # None /\ token # ""
                       THEN [scheme |-> "Bearer", token |-> token]
                       ELSE NoAuth]

\* mutant: the login check looks for another host
IsLoginRedirect_wrong_host(url) == Contains(url, "login.google.com")

\* 'accounts.google.com' in redirect_url
IsLoginRedirect(url) == Contains(url, LoginHost)

\* Response.raise_for_status raises HTTPError for 4xx and 5xx only
RaisesForStatus(status) == 400 <= status /\ status < 600

\* mutant: the success test compares with another word
IsSuccess_ok(result) == result.status = "ok"

\* result.get('status') == 'success'
IsSuccess(result) == result.status = "success"

\* mutant: one code dropped from the list
NonRetryableCodes_short == {"INVALID_JSON"}

\* ['INVALID_JSON', 'MISSING_FIELDS']
NonRetryableCodes == {"INVALID_JSON", "MISSING_FIELDS"}

\* mutant: the parse error is a plain ValueError that no clause catches
ExceptClause_json_uncaught(exc) ==
    IF exc = "Timeout" THEN "Timeout"
    ELSE IF exc = "HTTPError" THEN "HTTPError"
    ELSE IF exc \in {"ConnectionError", "MissingSchema"} THEN "RequestException"
    ELSE "uncaught"

\* the first except clause of the try block that matches the exception
ExceptClause(exc) ==
    IF exc = "Timeout" THEN "Timeout"
    ELSE IF exc = "HTTPError" THEN "HTTPError"
    ELSE IF exc \in {"ConnectionError", "JSONDecodeError", "MissingSchema"}
         THEN "RequestException"
    ELSE "uncaught"

\* mutant: gives up one attempt early
RetryRejected_early(att) == att < max_retries - 2

\* if attempt < self.max_retries - 1  (rejection branch)
RetryRejected(att) == att < max_retries - 1

\* mutant: <= for <, so the last attempt's timeout is swallowed too
RetryTimeout_le(att) == att <= max_retries - 1

\* if attempt < self.max_retries - 1  (except Timeout)
RetryTimeout(att) == att < max_retries - 1

\* mutant: the test for remaining attempts is left out
RetryHTTPError_any_attempt(att, status) == status >= 500

\* if attempt < self.max_retries - 1 and response.status_code >= 500
RetryHTTPError(att, status) == att < max_retries - 1 /\ status >= 500

\* if attempt < self.max_retries - 1  (except RequestException)
RetryRequestException(att) == att < max_retries - 1

\* mutant: * for **
wait_time_linear(att) == 2 * att

\* wait_time = 2 ** attempt
wait_time(att) == 2 ^ att

\* mutant: range(self.max_retries + 1)
HasNextAttempt_one_more(att) == att + 1 <= max_retries

\* range(self.max_retries) has a next element after `att`
HasNextAttempt(att) == att + 1 < max_retries

\* An exception raised inside the try block at the current attempt: the
\* matching handler waits before the next attempt or re-raises; an exception
\* no clause matches leaves post_data at once.
Raised(exc, msg, status) ==
    LET clause == ExceptClause(exc)
        retry == CASE clause = "Timeout" -> RetryTimeout(attempt)
                   [] clause = "HTTPError" -> RetryHTTPError(attempt, status)
                   [] clause = "RequestException" -> RetryRequestException(attempt)
                   [] OTHER -> FALSE
    IN  IF retry
        THEN pc' = "wait" /\ outcome' = outcome
        ELSE pc' = "done" /\ outcome' = Raise(exc, msg, status, attempt)

(***************************************************************************)
(* What post_batch collects and hands back.  An entry of `results` is the  *)
(* dict post_data returned, or the error dict built in the except branch;  *)
(* has_item tells whether the dict has the key 'item'.                     *)
(***************************************************************************)
ResultEntry(result) ==
    [status |-> result.status, message |-> None, has_item |-> FALSE,
     item |-> NoData, code |-> result.code, row |-> result.row,
     executionTime |-> result.executionTime]

\* {'status': 'error', 'message': str(e), 'item': item}
ErrorEntry(e, item) ==
    [status |-> "error", message |-> IF e.msg # None THEN e.msg ELSE e.exc,
     has_item |-> TRUE, item |-> item, code |-> None, row |-> 0,
     executionTime |-> None]

NoBatchReturn == [kind |-> "none", fields |-> {}, results |-> <<>>, exc |-> None]

\* return results
BatchReturn(rs) ==
    [kind |-> "return", fields |-> {"results"}, results |-> rs, exc |-> None]

\* an exception leaving post_batch
BatchRaise(e) == [kind |-> "raise", fields |-> {}, results |-> <<>>, exc |-> e.exc]

\* mutant: except requests.exceptions.RequestException
Catches_requests_only(exc) ==
    exc \in {"Timeout", "ConnectionError", "HTTPError", "JSONDecodeError",
             "MissingSchema", "RequestException"}

\* except Exception as e  (post_batch)
Catches(exc) == TRUE

\* mutant: every entry counts
SuccessCount_all(rs) == Len(rs)

\* sum(1 for r in results if r.get('status') == 'success')
SuccessCount(rs) == Cardinality({k \in 1..Len(rs) : rs[k].status = "success"})

(***************************************************************************)
(* The pieces of test_connection.                                          *)
(***************************************************************************)
test_payload == [f \in FieldSet |-> "value"]

test_headers == [ContentType |-> "application/json", Authorization |-> NoAuth]

\* requests.post(..., allow_redirects=True) returns the response that ends
\* the redirect chain
TestStatuses == {200, 201, 302, 400, 500}

TestResponses ==
    [status_code : TestStatuses, Location : {<<>>}, body : Bodies, att : {0}]

\* mutant: any 2xx status is accepted
TestStatusOk_2xx(status) == status \in 200..299

\* if response.status_code == 200
TestStatusOk(status) == status = 200

\* mutant: except requests.exceptions.RequestException
TestCatches_requests_only(exc) ==
    exc \in {"Timeout", "ConnectionError", "HTTPError", "JSONDecodeError",
             "MissingSchema", "RequestException"}

\* except Exception as e  (test_connection)
TestCatches(exc) == TRUE

\* result.get('status') == 'success'  (test_connection)
TestIsSuccess(result) == result.status = "success"

\* what post_data does with a final response: True when it returns it as a
\* success (raise_for_status passes, the body is a JSON object, status success)
PostDataReturnsSuccess(r) ==
    /\ ~RaisesForStatus(r.status_code)
    /\ r.body.kind = "object"
    /\ IsSuccess(r.body)

(***************************************************************************)
(* Initial states: a client as the constructor leaves it, no call running. *)
(***************************************************************************)
Init ==
    /\ webapp_url = DefaultWebappUrl
    /\ max_retries \in 0..MaxRetriesBound
    /\ timeout = 30
    /\ auth_token \in {None, "token"}
    /\ data = NoData
    /\ pc = "idle"
    /\ attempt = -1
    /\ response = NoResponse
    /\ redirect_url = <<>>
    /\ outcome = NoOutcome
    /\ log = <<>>
    /\ items = <<>>
    /\ taken = 0
    /\ results = <<>>
    /\ success_count = 0
    /\ batch_pc = "idle"
    /\ batch_return = NoBatchReturn
    /\ test_pc = "idle"
    /\ test_response = NoResponse
    /\ test_log = <<>>
    /\ test_return = FALSE

(***************************************************************************)
(* post_data(d) is called: validation, then the loop is entered.           *)
(***************************************************************************)
Submit(d) ==
    /\ pc \in {"idle", "done"}
    /\ data' = d
    /\ attempt' = -1
    /\ response' = NoResponse
    /\ redirect_url' = <<>>
    /\ log' = <<>>
    /\ IF missing(d) # <<>>
       THEN /\ pc' = "done"
            /\ outcome' = Raise("ValueError", MissingFieldsMsg, 0, -1)
       ELSE /\ pc' = "for"
            /\ outcome' = NoOutcome
    /\ UNCHANGED config

\* for attempt in range(self.max_retries): ... ; after the loop the generic raise
ForAttempt ==
    /\ pc = "for"
    /\ IF HasNextAttempt(attempt)
       THEN /\ attempt' = attempt + 1
            /\ pc' = "post"
            /\ outcome' = outcome
       ELSE /\ attempt' = attempt
            /\ pc' = "done"
            /\ outcome' = Raise("RequestException", AllFailedMsg, 0, -1)
    /\ UNCHANGED <<config, data, response, redirect_url, log>>

\* requests.post(...) is answered; a 302 is examined
PostAnswered(r) ==
    /\ pc = "post"
    /\ log' = Append(log, PostEvent(webapp_url, headers(auth_token), data))
    /\ response' = r
    /\ IF r.status_code = 302
       THEN /\ redirect_url' = r.Location
            /\ IF IsLoginRedirect(r.Location)
               THEN Raised("ValueError", AccessDeniedMsg, 0)
               ELSE pc' = "get" /\ outcome' = outcome
       ELSE /\ redirect_url' = redirect_url
            /\ pc' = "check"
            /\ outcome' = outcome
    /\ UNCHANGED <<config, data, attempt>>

\* requests.post(...) raises a transport exception
PostFailed(exc) ==
    /\ pc = "post"
    /\ log' = Append(log, PostEvent(webapp_url, headers(auth_token), data))
    /\ Raised(exc, None, 0)
    /\ UNCHANGED <<config, data, attempt, response, redirect_url>>

\* requests.get(redirect_url, timeout=...) is answered
GetAnswered(r) ==
    /\ pc = "get"
    /\ redirect_url # <<>>
    /\ log' = Append(log, GetEvent(redirect_url))
    /\ response' = r
    /\ pc' = "check"
    /\ UNCHANGED <<config, data, attempt, redirect_url, outcome>>

\* requests.get(...) raises a transport exception
GetFailed(exc) ==
    /\ pc = "get"
    /\ redirect_url # <<>>
    /\ log' = Append(log, GetEvent(redirect_url))
    /\ Raised(exc, None, 0)
    /\ UNCHANGED <<config, data, attempt, response, redirect_url>>

\* requests.get('') raises MissingSchema before anything is sent
GetInvalidUrl ==
    /\ pc = "get"
    /\ redirect_url = <<>>
    /\ Raised("MissingSchema", None, 0)
    /\ UNCHANGED <<config, data, attempt, response, redirect_url, log>>

\* response.raise_for_status(); result = response.json(); the status branches
CheckFinal ==
    /\ pc = "check"
    /\ LET result == response.body IN
       IF RaisesForStatus(response.status_code)
       THEN Raised("HTTPError", None, response.status_code)
       ELSE IF result.kind = "notjson"
       THEN Raised("JSONDecodeError", None, 0)
       ELSE IF result.kind = "nonobject"
       THEN Raised("AttributeError", None, 0)
       ELSE IF IsSuccess(result)
       THEN pc' = "done" /\ outcome' = Return(result, attempt)
       ELSE IF result.code \in NonRetryableCodes
       THEN Raised("ValueError", ValidationMsg, 0)
       ELSE IF RetryRejected(attempt)
       THEN pc' = "wait" /\ outcome' = outcome
       ELSE pc' = "done" /\ outcome' = Return(result, attempt)
    /\ UNCHANGED <<config, data, attempt, response, redirect_url, log>>

\* self._wait_before_retry(attempt): time.sleep(2 ** attempt)
WaitBeforeRetry ==
    /\ pc = "wait"
    /\ log' = Append(log, WaitEvent(wait_time(attempt)))
    /\ pc' = "for"
    /\ UNCHANGED <<config, data, attempt, response, redirect_url, outcome>>

\* post_data called on its own: post_batch and test_connection stay idle
Next ==
    \/ (\E d \in Payloads : Submit(d)) /\ UNCHANGED <<batch_vars, test_vars>>
    \/ ForAttempt /\ UNCHANGED <<batch_vars, test_vars>>
    \/ (\E r \in PostResponses(attempt) : PostAnswered(r))
          /\ UNCHANGED <<batch_vars, test_vars>>
    \/ (\E e \in TransportErrors : PostFailed(e)) /\ UNCHANGED <<batch_vars, test_vars>>
    \/ (\E r \in GetResponses(attempt) : GetAnswered(r))
          /\ UNCHANGED <<batch_vars, test_vars>>
    \/ (\E e \in TransportErrors : GetFailed(e)) /\ UNCHANGED <<batch_vars, test_vars>>
    \/ GetInvalidUrl /\ UNCHANGED <<batch_vars, test_vars>>
    \/ CheckFinal /\ UNCHANGED <<batch_vars, test_vars>>
    \/ WaitBeforeRetry /\ UNCHANGED <<batch_vars, test_vars>>

Spec == Init /\ [][Next]_vars

(***************************************************************************)
(* post_batch.                                                             *)
(***************************************************************************)
post_data_vars == <<data, pc, attempt, response, redirect_url, outcome, log>>

\* no public method is running
CallerIdle ==
    /\ pc \in {"idle", "done"}
    /\ batch_pc \in {"idle", "done"}
    /\ test_pc \in {"idle", "done"}

\* What an earlier call left behind (its locals, what it handed back) is
\* dead once the caller makes the next call: it is set back to its initial
\* value.
ForgetPostData ==
    /\ data' = NoData
    /\ pc' = "idle"
    /\ attempt' = -1
    /\ response' = NoResponse
    /\ redirect_url' = <<>>
    /\ outcome' = NoOutcome
    /\ log' = <<>>

ForgetBatch ==
    /\ items' = <<>>
    /\ taken' = 0
    /\ results' = <<>>
    /\ success_count' = 0
    /\ batch_pc' = "idle"
    /\ batch_return' = NoBatchReturn

ForgetTest ==
    /\ test_pc' = "idle"
    /\ test_response' = NoResponse
    /\ test_log' = <<>>
    /\ test_return' = FALSE

\* post_batch(its) is called: results = []
PostBatch(its) ==
    /\ CallerIdle
    /\ items' = its
    /\ taken' = 0
    /\ results' = <<>>
    /\ success_count' = 0
    /\ batch_pc' = "loop"
    /\ batch_return' = NoBatchReturn
    /\ ForgetPostData
    /\ ForgetTest
    /\ UNCHANGED config

\* for i, item in enumerate(items): ... self.post_data(item)
BatchItem ==
    /\ batch_pc = "loop"
    /\ taken < Len(items)
    /\ taken' = taken + 1
    /\ Submit(items[taken + 1])
    /\ batch_pc' = "item"
    /\ UNCHANGED <<items, results, success_count, batch_return, test_vars>>

\* post_data is over: results.append(result), or the except branch
BatchCollect ==
    /\ batch_pc = "item"
    /\ pc = "done"
    /\ IF outcome.kind = "return"
       THEN /\ results' = Append(results, ResultEntry(outcome.value))
            /\ batch_pc' = "loop"
            /\ batch_return' = batch_return
       ELSE IF Catches(outcome.exc)
       THEN /\ results' = Append(results, ErrorEntry(outcome, items[taken]))
            /\ batch_pc' = "loop"
            /\ batch_return' = batch_return
       ELSE /\ results' = results
            /\ batch_pc' = "done"
            /\ batch_return' = BatchRaise(outcome)
    /\ UNCHANGED <<config, post_data_vars, items, taken, success_count, test_vars>>

\* the loop is over: success_count = sum(...); print; return results
BatchSummary ==
    /\ batch_pc = "loop"
    /\ taken >= Len(items)
    /\ success_count' = SuccessCount(results)
    /\ batch_return' = BatchReturn(results)
    /\ batch_pc' = "done"
    /\ UNCHANGED <<config, post_data_vars, items, taken, results, test_vars>>

(***************************************************************************)
(* test_connection.                                                        *)
(***************************************************************************)
\* mutant: the probe's 15 s are stored in the client
TestConnection_sets_timeout ==
    /\ CallerIdle
    /\ test_pc' = "post"
    /\ test_response' = NoResponse
    /\ test_log' = <<>>
    /\ test_return' = FALSE
    /\ ForgetPostData
    /\ ForgetBatch
    /\ timeout' = 15
    /\ UNCHANGED <<webapp_url, max_retries, auth_token>>

\* test_connection() is called
TestConnection ==
    /\ CallerIdle
    /\ test_pc' = "post"
    /\ test_response' = NoResponse
    /\ test_log' = <<>>
    /\ test_return' = FALSE
    /\ ForgetPostData
    /\ ForgetBatch
    /\ UNCHANGED config

\* requests.post(...) is answered: the status test, response.json(), the
\* status field; json.JSONDecodeError is caught inside, anything else by
\* `except Exception`
TestAnswered(r) ==
    /\ test_pc = "post"
    /\ test_log' = Append(test_log, PostEvent(webapp_url, test_headers, test_payload))
    /\ test_response' = r
    /\ IF ~TestStatusOk(r.status_code)
       THEN test_return' = FALSE /\ test_pc' = "done"
       ELSE IF r.body.kind = "notjson"
       THEN test_return' = FALSE /\ test_pc' = "done"
       ELSE IF r.body.kind = "nonobject"
       THEN /\ test_return' = FALSE
            /\ test_pc' = IF TestCatches("AttributeError") THEN "done" ELSE "raised"
       ELSE test_return' = TestIsSuccess(r.body) /\ test_pc' = "done"
    /\ UNCHANGED <<config, post_data_vars, batch_vars>>

\* requests.post(...) raises a transport exception
TestFailed(exc) ==
    /\ test_pc = "post"
    /\ test_log' = Append(test_log, PostEvent(webapp_url, test_headers, test_payload))
    /\ test_response' = test_response
    /\ test_return' = FALSE
    /\ test_pc' = IF TestCatches(exc) THEN "done" ELSE "raised"
    /\ UNCHANGED <<config, post_data_vars, batch_vars>>

(***************************************************************************)
(* The client as a whole: the three public methods, called one after the   *)
(* other in any order, against a smaller environment.                      *)
(***************************************************************************)
ClientPayloads == {[f \in FieldSet |-> "value"], [f \in {"id", "result"} |-> "value"]}

ClientBatches == UNION {[1..n -> ClientPayloads] : n \in 0..MaxBatch}

ClientBodies ==
    { NotJson,
      [kind |-> "object", status |-> "success", code |-> None, row |-> 7,
       executionTime |-> "1.2"],
      [kind |-> "object", status |-> "error", code |-> None, row |-> 0,
       executionTime |-> None],
      [kind |-> "object", status |-> "error", code |-> "INVALID_JSON", row |-> 0,
       executionTime |-> None] }

ClientPostResponses(att) ==
    {r \in PostResponses(att) :
        \/ r.status_code = 200 /\ r.body \in ClientBodies
        \/ r.status_code = 500 /\ r.body = NotJson
        \/ r.status_code = 302}

ClientGetResponses(att) ==
    {r \in GetResponses(att) : r.status_code = 200 /\ r.body \in ClientBodies}

ClientInit == Init /\ max_retries <= ClientRetriesBound

ClientNext ==
    \/ (\E d \in ClientPayloads : CallerIdle /\ Submit(d))
          /\ ForgetBatch /\ ForgetTest
    \/ ForAttempt /\ UNCHANGED <<batch_vars, test_vars>>
    \/ (\E r \in ClientPostResponses(attempt) : PostAnswered(r))
          /\ UNCHANGED <<batch_vars, test_vars>>
    \/ (\E e \in TransportErrors : PostFailed(e)) /\ UNCHANGED <<batch_vars, test_vars>>
    \/ (\E r \in ClientGetResponses(attempt) : GetAnswered(r))
          /\ UNCHANGED <<batch_vars, test_vars>>
    \/ (\E e \in TransportErrors : GetFailed(e)) /\ UNCHANGED <<batch_vars, test_vars>>
    \/ GetInvalidUrl /\ UNCHANGED <<batch_vars, test_vars>>
    \/ CheckFinal /\ UNCHANGED <<batch_vars, test_vars>>
    \/ WaitBeforeRetry /\ UNCHANGED <<batch_vars, test_vars>>
    \/ \E its \in ClientBatches : PostBatch(its)
    \/ BatchItem
    \/ BatchCollect
    \/ BatchSummary
    \/ TestConnection
    \/ \E r \in TestResponses : TestAnswered(r)
    \/ \E e \in TransportErrors : TestFailed(e)

ClientSpec == ClientInit /\ [][ClientNext]_vars

(***************************************************************************)
(* Derived views of the log.                                               *)
(***************************************************************************)
WaitSeq == SelectSeq(log, LAMBDA e : e.op = "WAIT")

RECURSIVE TotalDelay(_)
TotalDelay(ws) == IF ws = <<>> THEN 0 ELSE Head(ws).wait + TotalDelay(Tail(ws))

LastOp == IF log = <<>> THEN None ELSE log[Len(log)].op

TypeOK ==
    /\ pc \in {"idle", "for", "post", "get", "check", "wait", "done"}
    /\ attempt \in -1..MaxRetriesBound
    /\ data \in Payloads
    /\ max_retries \in 0..MaxRetriesBound

(***************************************************************************)
(* C1: a payload that lacks at least one of id, result, score ends         *)
(* post_data with the ValueError of the validation, and the call issues no *)
(* POST, no GET and no backoff wait, whatever max_retries is.              *)
(***************************************************************************)
C1_MissingKeyFailsWithoutIO ==
    (pc # "idle" /\ \E f \in {"id", "result", "score"} : f \notin DOMAIN data)
        => /\ pc = "done"
           /\ outcome = Raise("ValueError", MissingFieldsMsg, 0, -1)
           /\ log = <<>>

C1_Witness ==
    /\ pc = "done"
    /\ DOMAIN data = {"id", "result"}
    /\ max_retries >= 2
    /\ outcome.msg = MissingFieldsMsg

(***************************************************************************)
(* C2: a POST answered with a 302 to the login host ends post_data in that *)
(* attempt with the access-denied ValueError: the POST is the last I/O of  *)
(* the call (no GET, no wait after it), whatever max_retries is and        *)
(* whichever attempt it is; on the first attempt the POST is the only I/O. *)
(***************************************************************************)
C2_LoginRedirectIsTerminal ==
    (response.status_code = 302 /\ Host(response.Location) = LoginHost)
        => /\ pc = "done"
           /\ outcome = Raise("ValueError", AccessDeniedMsg, 0, attempt)
           /\ response.att = attempt
           /\ LastOp = "POST"
           /\ Posts = attempt + 1
           /\ Waits = attempt
           /\ attempt = 0 => Len(log) = 1

C2_Witness ==
    /\ pc = "done"
    /\ outcome.msg = AccessDeniedMsg
    /\ Host(response.Location) = LoginHost
    /\ attempt = 1
    /\ max_retries = 3

(***************************************************************************)
(* C3: an attempt whose final response is 2xx with a JSON object of status *)
(* "success" returns that object at once, with no further I/O; a call that *)
(* returned success did its last I/O in the attempt that returned, and     *)
(* after the return only a new call can follow.  For [302 to the content   *)
(* host, 200 success] the log is exactly POST, GET.                        *)
(***************************************************************************)
C3_SuccessStep ==
    /\ (/\ pc = "check"
         /\ response.status_code \in 200..299
         /\ response.body.kind = "object"
         /\ response.body.status = "success")
        => /\ pc' = "done"
           /\ outcome' = Return(response.body, attempt)
           /\ log' = log
    /\ pc = "done" => (pc' \in {"done", "for"} /\ log' = <<>>)

C3_SuccessState ==
    (pc = "done" /\ outcome.kind = "return" /\ outcome.value.status = "success")
        => /\ outcome.value = response.body
           /\ outcome.att = attempt
           /\ response.att = attempt
           /\ LastOp \in {"POST", "GET"}
           /\ Posts = attempt + 1
           /\ Waits = attempt
           /\ attempt = 0 => Len(log) = Posts + Gets

C3_SuccessIsTerminal == [][C3_SuccessStep]_vars /\ []C3_SuccessState

C3_Witness ==
    /\ pc = "done"
    /\ outcome.kind = "return"
    /\ outcome.value.status = "success"
    /\ outcome.value.row = 7
    /\ response.status_code = 200
    /\ Len(log) = 2
    /\ log[1].op = "POST"
    /\ log[2].op = "GET"
    /\ Host(log[2].url) = ContentHost
    /\ max_retries = 3

(***************************************************************************)
(* C4: a transport exception on the POST or on the GET makes post_data     *)
(* wait and go on while attempts remain, and on the last attempt leaves    *)
(* post_data as that exception.  A call that ended in a transport          *)
(* exception made exactly max_retries attempts, waited 2^0, 2^1, ...       *)
(* between them and did not wait after the last one; with max_retries = 3  *)
(* the waits are 1 and 2.                                                  *)
(***************************************************************************)
C4_TransportStep ==
    \A e \in {"Timeout", "ConnectionError"} :
        (PostFailed(e) \/ GetFailed(e))
            => IF attempt < max_retries - 1
               THEN pc' = "wait" /\ outcome' = NoOutcome
               ELSE pc' = "done" /\ outcome' = Raise(e, None, 0, attempt)

C4_TransportState ==
    (pc = "done" /\ outcome.kind = "raise"
       /\ outcome.exc \in {"Timeout", "ConnectionError"})
        => /\ Posts = max_retries
           /\ outcome.att = max_retries - 1
           /\ Len(WaitSeq) = max_retries - 1
           /\ \A k \in 1..Len(WaitSeq) : WaitSeq[k].wait = 2 ^ (k - 1)
           /\ LastOp # "WAIT"
           /\ max_retries = 3 =>
                  /\ Len(WaitSeq) = 2
                  /\ WaitSeq[1].wait = 1
                  /\ WaitSeq[2].wait = 2

C4_TransportFailuresExhaustRetries ==
    [][C4_TransportStep]_vars /\ []C4_TransportState

C4_Witness ==
    /\ pc = "done"
    /\ max_retries = 3
    /\ outcome = Raise("Timeout", None, 0, 2)
    /\ Len(log) = 5
    /\ log[2].op = "WAIT" /\ log[2].wait = 1
    /\ log[4].op = "WAIT" /\ log[4].wait = 2
    /\ log[5].op = "POST"

(***************************************************************************)
(* C5: the k-th wait of a call (k from 0) lasts 2^k; every wait directly   *)
(* follows the I/O of a failed attempt and is followed by the POST of the  *)
(* next attempt; no wait is the last event of a finished call.  A call     *)
(* that made n >= 1 attempts waited n-1 times, 2^(n-1) - 1 in total.       *)
(***************************************************************************)
C5_Backoff ==
    /\ \A k \in 1..Len(WaitSeq) : WaitSeq[k].wait = 2 ^ (k - 1)
    /\ \A i \in 1..Len(log) :
          log[i].op = "WAIT"
            => /\ i > 1
               /\ log[i - 1].op \in {"POST", "GET"}
               /\ i < Len(log) => log[i + 1].op = "POST"
    /\ LastOp = "WAIT" => \/ pc = "for" /\ attempt + 1 < max_retries
                          \/ pc = "post" /\ attempt < max_retries
    /\ pc = "wait" => attempt + 1 < max_retries
    /\ (pc = "done" /\ Posts >= 1)
          => /\ LastOp # "WAIT"
             /\ Waits = Posts - 1
             /\ TotalDelay(WaitSeq) = 2 ^ (Posts - 1) - 1

C5_Witness ==
    /\ pc = "done"
    /\ Posts = 3
    /\ Waits = 2
    /\ TotalDelay(WaitSeq) = 3
    /\ outcome.kind = "return"

(***************************************************************************)
(* C6: a final response whose status is outside 200..299 (a 302 without a  *)
(* Location header included) is an HTTP error whose body is not read: with *)
(* status >= 500 and attempts remaining post_data waits and retries,       *)
(* otherwise it fails at once with the HTTPError of that status.           *)
(***************************************************************************)
C6_NonSuccessStatusIsHttpError ==
    [][ /\ (pc = "check" /\ response.status_code \notin 200..299)
            => IF response.status_code >= 500 /\ attempt < max_retries - 1
               THEN pc' = "wait" /\ outcome' = NoOutcome
               ELSE /\ pc' = "done"
                    /\ outcome' = Raise("HTTPError", None, response.status_code, attempt)
        /\ (pc = "post" /\ response' # response
               /\ response'.status_code = 302 /\ response'.Location = <<>>)
            => /\ pc' = "done"
               /\ outcome' = Raise("HTTPError", None, 302, attempt)
      ]_vars

(***************************************************************************)
(* C7: a parsed final response whose status is not "success" and whose     *)
(* code is INVALID_JSON or MISSING_FIELDS ends post_data at once with the  *)
(* validation ValueError: no wait, no further attempt, however many        *)
(* attempts remain.                                                        *)
(***************************************************************************)
C7_Step ==
    (/\ pc = "check"
     /\ response.status_code \notin 400..599
     /\ response.body.kind = "object"
     /\ response.body.status # "success"
     /\ response.body.code \in {"INVALID_JSON", "MISSING_FIELDS"})
        => /\ pc' = "done"
           /\ outcome' = Raise("ValueError", ValidationMsg, 0, attempt)
           /\ log' = log

C7_State ==
    (pc = "done" /\ outcome.msg = ValidationMsg)
        => /\ response.body.code \in {"INVALID_JSON", "MISSING_FIELDS"}
           /\ response.att = attempt
           /\ LastOp \in {"POST", "GET"}
           /\ Posts = attempt + 1
           /\ Waits = attempt

C7_NonRetryableRejectionIsTerminal == [][C7_Step]_vars /\ []C7_State

C7_Witness ==
    /\ pc = "done"
    /\ outcome.msg = ValidationMsg
    /\ response.body.code = "MISSING_FIELDS"
    /\ attempt = 0
    /\ max_retries = 3

(***************************************************************************)
(* C8: a parsed final response whose status is not "success" and whose     *)
(* code is not INVALID_JSON or MISSING_FIELDS (or absent) makes post_data  *)
(* wait 2^attempt and start the next attempt while attempts remain; on the *)
(* last attempt post_data returns, as a value, the body of that attempt.   *)
(***************************************************************************)
C8_Step ==
    /\ (/\ pc = "check"
         /\ response.status_code \notin 400..599
         /\ response.body.kind = "object"
         /\ response.body.status # "success"
         /\ response.body.code \notin {"INVALID_JSON", "MISSING_FIELDS"})
        => IF attempt < max_retries - 1
           THEN pc' = "wait" /\ outcome' = NoOutcome /\ log' = log
           ELSE pc' = "done" /\ outcome' = Return(response.body, attempt)
    /\ pc = "wait" => (pc' = "for" /\ log' = Append(log, WaitEvent(2 ^ attempt)))
    /\ (pc = "for" /\ LastOp = "WAIT") => (pc' = "post" /\ attempt' = attempt + 1)

C8_State ==
    (pc = "done" /\ outcome.kind = "return" /\ outcome.value.status # "success")
        => /\ outcome.value = response.body
           /\ outcome.att = attempt
           /\ response.att = attempt
           /\ attempt = max_retries - 1
           /\ Posts = max_retries

C8_TransientRejectionRetriesThenReturnsLast == [][C8_Step]_vars /\ []C8_State

C8_Witness ==
    /\ pc = "done"
    /\ outcome.kind = "return"
    /\ outcome.value.status = "error"
    /\ outcome.value.code = "RATE_LIMIT"
    /\ outcome.att = 2
    /\ Waits = 2
    /\ max_retries = 3

(***************************************************************************)
(* C9: a 2xx final response whose body is not JSON makes post_data wait    *)
(* and retry while attempts remain; only on the last attempt does the      *)
(* parse error leave post_data.                                            *)
(***************************************************************************)
C9_Step ==
    (/\ pc = "check"
     /\ response.status_code \in 200..299
     /\ response.body.kind = "notjson")
        => IF attempt < max_retries - 1
           THEN pc' = "wait" /\ outcome' = NoOutcome /\ log' = log
           ELSE pc' = "done" /\ outcome' = Raise("JSONDecodeError", None, 0, attempt)

C9_State ==
    (pc = "done" /\ outcome.exc = "JSONDecodeError")
        => /\ attempt = max_retries - 1
           /\ Posts = max_retries
           /\ Waits = max_retries - 1

C9_ParseFailureRetriedUntilExhaustion == [][C9_Step]_vars /\ []C9_State

C9_Witness ==
    /\ pc = "done"
    /\ outcome.exc = "JSONDecodeError"
    /\ response.status_code = 204
    /\ Posts = 3
    /\ max_retries = 3

(***************************************************************************)
(* C10: with max_retries >= 1 the loop never runs out: the generic "All    *)
(* retry attempts failed" is never the outcome, and what a call hands over *)
(* on its last attempt is what that attempt observed.                      *)
(***************************************************************************)
C10_LastFailureNotGeneric ==
    max_retries >= 1 =>
        /\ pc = "for" => attempt + 1 < max_retries
        /\ pc = "done" =>
              /\ outcome.msg # AllFailedMsg
              /\ Posts = max_retries =>
                    /\ outcome.kind \in {"return", "raise"}
                    /\ outcome.att = max_retries - 1
                    /\ outcome.att = attempt
                    /\ outcome.kind = "return" =>
                          (outcome.value = response.body /\ response.att = attempt)
                    /\ outcome.exc = "HTTPError" =>
                          /\ outcome.status_code = response.status_code
                          /\ response.att = attempt

C10_Witness ==
    /\ pc = "done"
    /\ max_retries = 3
    /\ Posts = 3
    /\ outcome.exc = "HTTPError"
    /\ outcome.status_code = 500

(***************************************************************************)
(* C13: no POST is ever sent for a payload in which id, result or score is *)
(* absent or null.                                                         *)
(***************************************************************************)
C13_NoNetworkCallForNullValues ==
    Posts >= 1 =>
        \A f \in {"id", "result", "score"} : f \in DOMAIN data /\ data[f] # None

(***************************************************************************)
(* C17: every POST goes to the configured URL and carries the Bearer       *)
(* header exactly when a token is set; no GET (and nothing sent anywhere   *)
(* but to the configured URL) carries an Authorization header.             *)
(***************************************************************************)
C17_BearerOnlyOnPost ==
    \A k \in 1..Len(log) :
        /\ log[k].op = "POST" =>
              /\ log[k].url = webapp_url
              /\ log[k].auth = IF auth_token # None
                               THEN [scheme |-> "Bearer", token |-> auth_token]
                               ELSE NoAuth
        /\ log[k].op = "GET" => log[k].auth = NoAuth
        /\ log[k].auth # NoAuth => log[k].url = webapp_url

C17_Witness ==
    /\ auth_token = "token"
    /\ Len(log) = 2
    /\ log[1].op = "POST"
    /\ log[1].auth.token = "token"
    /\ log[2].op = "GET"
    /\ Host(log[2].url) = ContentHost

(***************************************************************************)
(* C18: post_data ends with the access-denied error only when the host of  *)
(* the redirect target is the login host; a 302 to the content host is     *)
(* followed with a GET even when the login host's name occurs later in the *)
(* Location URL.                                                           *)
(***************************************************************************)
C18_AuthDeniedOnlyForLoginHost ==
    /\ outcome.msg = AccessDeniedMsg => Host(response.Location) = LoginHost
    /\ (response.status_code = 302 /\ Host(response.Location) = ContentHost)
          => pc = "get"

(***************************************************************************)
(* C19: a call of post_data terminates: every step of a running call       *)
(* lowers a rank that is never negative, and a running call can always     *)
(* take a step.  At most max_retries POSTs are sent, each with the payload *)
(* of the call to the configured URL, one per attempt; a GET directly      *)
(* follows the POST of its attempt, which was answered with a 302 to a     *)
(* target other than the login host, so no attempt has two GETs.           *)
(***************************************************************************)
Position ==
    CASE pc = "post" -> 0
      [] pc = "get" -> 1
      [] pc = "check" -> 2
      [] pc = "wait" -> 3
      [] OTHER -> 4

Rank == IF pc \in {"idle", "done"} THEN 0 ELSE 5 * (max_retries - attempt) - Position

C19_Step ==
    /\ pc \notin {"idle", "done"} => Rank' < Rank
    /\ Posts' > Posts => (pc = "post" /\ Posts' = attempt + 1 /\ Gets' = Gets)
    /\ (Gets' > Gets /\ pc # "done") =>
          /\ pc = "get"
          /\ LastOp = "POST"
          /\ response.status_code = 302
          /\ response.att = attempt
          /\ Host(response.Location) # LoginHost
          /\ log'[Len(log')].url = response.Location

C19_State ==
    /\ Rank >= 0
    /\ pc \notin {"idle", "done"} => ENABLED Next
    /\ Posts <= max_retries
    /\ Gets <= Posts
    /\ pc \in {"get", "check", "wait"} => Posts = attempt + 1
    /\ \A k \in 1..Len(log) :
          /\ log[k].op = "POST" => (log[k].sent = data /\ log[k].url = webapp_url)
          /\ log[k].op = "GET" => (k > 1 /\ log[k - 1].op = "POST")

C19_BoundedProtocol == [][C19_Step]_vars /\ []C19_State

C19_Witness ==
    /\ pc = "done"
    /\ max_retries = 3
    /\ Posts = 3
    /\ Gets = 3

(***************************************************************************)
(* C11: post_batch never raises.  It takes the items one at a time in      *)
(* input order, starts a fresh post_data call for each whatever the        *)
(* earlier items ended with, and appends exactly one entry per item, so    *)
(* that entry k belongs to item k and the returned list is as long as the  *)
(* input.                                                                  *)
(***************************************************************************)
C11_Step ==
    /\ (batch_pc = "loop" /\ taken < Len(items)) => batch_pc' = "item"
    /\ (batch_pc = "loop" /\ batch_pc' = "item")
          => /\ taken = Len(results)
             /\ taken' = taken + 1
             /\ data' = items[taken + 1]
             /\ log' = <<>>
             /\ attempt' = -1
             /\ response' = NoResponse
             /\ \/ pc' = "for" /\ outcome' = NoOutcome
                \/ pc' = "done" /\ outcome'.msg = MissingFieldsMsg
    /\ batch_pc = "item"
          => /\ items' = items
             /\ taken' = taken
             /\ batch_pc' = "item" => results' = results
             /\ batch_pc' # "item"
                   => /\ batch_pc' = "loop"
                      /\ pc = "done"
                      /\ data = items[taken]
                      /\ results' = Append(results,
                            IF outcome.kind = "return"
                            THEN ResultEntry(outcome.value)
                            ELSE ErrorEntry(outcome, items[taken]))

C11_State ==
    /\ batch_return.kind # "raise"
    /\ batch_pc = "loop" => Len(results) = taken
    /\ batch_pc = "item" => Len(results) = taken - 1
    /\ batch_pc = "done"
          => /\ batch_return.kind = "return"
             /\ batch_return.results = results
             /\ Len(results) = Len(items)
    /\ \A k \in 1..Len(results) :
          /\ results[k].has_item => results[k].item = items[k]
          /\ results[k].message = MissingFieldsMsg
                <=> (\E f \in {"id", "result", "score"} : f \notin DOMAIN items[k])

C11_BatchIsIndexAligned == [][C11_Step]_vars /\ []C11_State

C11_Witness ==
    /\ batch_pc = "done"
    /\ Len(items) = 2
    /\ "score" \notin DOMAIN items[1]
    /\ results[1].message = MissingFieldsMsg
    /\ results[2].status = "success"
    /\ max_retries = 2

(***************************************************************************)
(* C12: in the list post_batch returns, every entry of an item that did    *)
(* not succeed is an error entry tagged with the payload at that index.    *)
(***************************************************************************)
C12_FailuresAreTaggedErrorEntries ==
    batch_pc = "done" =>
        \A k \in 1..Len(results) :
            results[k].status # "success"
                => /\ results[k].status = "error"
                   /\ results[k].has_item
                   /\ results[k].item = items[k]

(***************************************************************************)
(* C14, as claimed: post_batch hands back a success count together with    *)
(* the list.                                                               *)
(***************************************************************************)
C14_ReturnsSuccessCount ==
    batch_pc = "done" =>
        /\ batch_return.fields = {"results", "success_count"}
        /\ success_count = Cardinality({k \in 1..Len(results) : results[k].status = "success"})

(***************************************************************************)
(* C14, amended: post_batch hands back the ordered list alone; the success *)
(* count it computes before returning equals the number of items whose     *)
(* post_data call returned a success; error entries never count.           *)
(***************************************************************************)
C14_Step ==
    (batch_pc = "item" /\ batch_pc' = "loop")
        => (results'[taken].status = "success"
              <=> (outcome.kind = "return" /\ outcome.value.status = "success"))

C14_State ==
    /\ \A k \in 1..Len(results) : results[k].has_item => results[k].status # "success"
    /\ batch_pc = "done"
          => /\ batch_return.fields = {"results"}
             /\ batch_return.results = results
             /\ success_count =
                   Cardinality({k \in 1..Len(results) : results[k].status = "success"})
             /\ success_count <= Len(items)

C14_CountComputedListReturned == [][C14_Step]_vars /\ []C14_State

C14_Witness ==
    /\ batch_pc = "done"
    /\ Len(items) = 2
    /\ success_count = 1
    /\ results[1].status = "success"
    /\ results[2].status = "error"
    /\ ~results[2].has_item

(***************************************************************************)
(* C15: a call of test_connection sends exactly one POST, never waits,     *)
(* never retries, never raises and returns a boolean, whatever the server  *)
(* or the transport does; a 200 answer with a success body gives True on   *)
(* every call.                                                             *)
(***************************************************************************)
C15_Step ==
    test_pc = "post" => (test_pc' = "done" /\ Len(test_log') = 1)

C15_State ==
    /\ test_pc \in {"idle", "post", "done"}
    /\ test_return \in BOOLEAN
    /\ test_pc = "post" => test_log = <<>>
    /\ test_pc = "done"
          => /\ Len(test_log) = 1
             /\ test_log[1].op = "POST"
             /\ test_log[1].url = webapp_url
             /\ test_response = NoResponse => ~test_return
             /\ (/\ test_response.status_code = 200
                 /\ test_response.body.kind = "object"
                 /\ test_response.body.status = "success") => test_return

C15_ProbeIsSingleShotAndTotal == [][C15_Step]_vars /\ []C15_State

C15_Witness ==
    /\ test_pc = "done"
    /\ test_return
    /\ test_response.status_code = 200
    /\ test_response.body.row = 7
    /\ Len(test_log) = 1

(***************************************************************************)
(* C16: for every 2xx final response test_connection returns True exactly  *)
(* when post_data would return that response as a success.                 *)
(***************************************************************************)
C16_ProbeAgreesWithPostData ==
    (test_pc = "done" /\ test_response.status_code \in 200..299)
        => (test_return <=> PostDataReturnsSuccess(test_response))

(***************************************************************************)
(* C20: no step of post_data, post_batch or test_connection changes the    *)
(* URL, the retry count, the timeout or the token of the client; the       *)
(* payload of a running post_data call and the list of a running           *)
(* post_batch call stay as they were handed in.                            *)
(***************************************************************************)
C20_Step ==
    /\ config' = config
    /\ pc \notin {"idle", "done"} => data' = data
    /\ batch_pc \in {"loop", "item"} => items' = items

C20_State ==
    /\ webapp_url = DefaultWebappUrl
    /\ timeout = 30
    /\ \A k \in 1..Len(log) : log[k].op = "POST" => log[k].sent = data
    /\ \A k \in 1..Len(results) : results[k].has_item => results[k].item = items[k]

C20_ConfigUnchanged == [][C20_Step]_vars /\ []C20_State

C20_Witness ==
    /\ test_pc = "done"
    /\ test_return
    /\ config = <<DefaultWebappUrl, 2, 30, "token">>

====
